---- MODULE Spec2Model ----
(***************************************************************************)
(* A model of typed-function2 (src/typed-function2.js, lines 1-993): the   *)
(* type registry, the conversion registry, the ignore list, the signature  *)
(* parser, the compiler createTypedFunction and the callable it returns.   *)
(*                                                                         *)
(* Strings are sequences of tokens: a type name is one token, and so are   *)
(* the blank " ", the comma ",", the pipe "|" and the rest prefix "...".   *)
(* JavaScript values are abstract: one representative per class of values  *)
(* that the registered predicates can tell apart.  A predicate (the test   *)
(* of a type, a compiled param test) is the set of values it accepts.      *)
(* A user function is a positive number (its identity).                    *)
(***************************************************************************)
EXTENDS Integers, Sequences, FiniteSets, TLC

VARIABLES
  types,        \* typed.types: the ordered type registry
  conversions,  \* typed.conversions: the ordered conversion registry
  ignore,       \* typed.ignore: the ignored type names
  built,        \* <<>> or <<b>>: the arguments of the last successful construction
  typedFn,      \* <<>> or <<f>>: the callable that construction returned
  result        \* <<>> or <<r>>: the outcome of the last construction, call or find

vars == <<types, conversions, ignore, built, typedFn, result>>

----------------------------------------------------------------------------
(* Bounds of the model. *)

\* longest argument list a call is made with, where rest params are called
MaxArgs == 3

\* longest argument list a call is made with, where conversions are registered
MaxConvArgs == 2

\* longest argument list a call is made with, elsewhere
MaxFewArgs == 1

\* largest number of entries of a signatures map
MaxSigs == 2

\* largest number of conversions registered
MaxConversions == 1

----------------------------------------------------------------------------
(* Values and the built-in registry. *)

\* a number, a string, a boolean, a function, an array, a Date, a RegExp,
\* a plain object, null, undefined
Values == {"num", "str", "bool", "fun", "arr", "date", "regexp", "obj", "null", "undef"}

\* typeof x === 'object'
TypeofObject == {"arr", "date", "regexp", "obj", "null"}

\* function ok (x) { return true }
ok == Values

\* function notOk (x) { return false }
notOk == {}

_types == <<
  [name |-> "number",    test |-> {"num"}],
  [name |-> "string",    test |-> {"str"}],
  [name |-> "boolean",   test |-> {"bool"}],
  [name |-> "Function",  test |-> {"fun"}],
  [name |-> "Array",     test |-> {"arr"}],
  [name |-> "Date",      test |-> {"date"}],
  [name |-> "RegExp",    test |-> {"regexp"}],
  [name |-> "Object",    test |-> TypeofObject],
  [name |-> "null",      test |-> {"null"}],
  [name |-> "undefined", test |-> {"undef"}],
  [name |-> "any",       test |-> ok] >>

Min(S) == CHOOSE x \in S : \A y \in S : x <= y
Max(S) == CHOOSE x \in S : \A y \in S : x >= y

\* typed.types.find(function (entry) { return entry.name === type })
HasType(type, reg) == \E i \in 1..Len(reg) : reg[i].name = type

\* findTest: the test of the first entry with that name; it throws a
\* TypeError for an unknown name (HasType is false), modelled as notOk here
\* and as a construction failure where it is called.
findTest(type, reg) ==
  IF HasType(type, reg)
    THEN reg[Min({i \in 1..Len(reg) : reg[i].name = type})].test
    ELSE notOk

\* findType: the name of the first entry whose test accepts the value
findType(value, reg) ==
  LET hits == {i \in 1..Len(reg) : value \in reg[i].test}
  IN  IF hits = {} THEN "unknown" ELSE reg[Min(hits)].name

----------------------------------------------------------------------------
(* Strings. *)

\* String.prototype.trimStart: the blanks at the end are kept
trimStart(str) ==
  LET idx == {i \in 1..Len(str) : str[i] # " "}
  IN  IF idx = {} THEN <<>> ELSE SubSeq(str, Min(idx), Len(str))

\* String.prototype.trim
trim(str) ==
  LET idx == {i \in 1..Len(str) : str[i] # " "}
  IN  IF idx = {} THEN <<>> ELSE SubSeq(str, Min(idx), Max(idx))

\* String.prototype.split(sep)
RECURSIVE split(_, _)
split(str, sep) ==
  LET idx == {i \in 1..Len(str) : str[i] = sep}
  IN  IF idx = {} THEN <<str>>
      ELSE <<SubSeq(str, 1, Min(idx) - 1)>>
             \o split(SubSeq(str, Min(idx) + 1, Len(str)), sep)

\* Array.prototype.join(sep) of an array of strings
RECURSIVE join(_, _)
join(arr, sep) ==
  IF Len(arr) = 0 THEN <<>>
  ELSE IF Len(arr) = 1 THEN arr[1]
  ELSE arr[1] \o <<sep>> \o join(Tail(arr), sep)

notEmpty(str) == str # <<>>

\* The type name a trimmed piece of a param spells.  A piece of several
\* tokens (a name with a blank or a "..." inside) is no name any registry
\* or ignore list of the model holds; all such pieces spell "?".
nameOf(piece) == IF Len(piece) = 1 THEN piece[1] ELSE "?"

\* parseParam: param.split('|').map(trim).filter(notEmpty)
parseParam(param) ==
  LET pieces  == split(param, "|")
      trimmed == [i \in 1..Len(pieces) |-> trim(pieces[i])]
      kept    == SelectSeq(trimmed, notEmpty)
  IN  [i \in 1..Len(kept) |-> nameOf(kept[i])]

\* stringifyParams
stringifyParams(sig) ==
  join([index \in 1..Len(sig.params) |->
          (IF sig.restParam /\ index = Len(sig.params) THEN <<"...">> ELSE <<>>)
            \o join([j \in 1..Len(sig.params[index]) |-> <<sig.params[index][j]>>], "|")],
       ",")

\* parseParams: the parsed signature; error is TRUE where the code throws
\* the SyntaxError 'Unexpected rest parameter'.
parseParams(signature) ==
  IF trim(signature) = <<>>
    THEN [params |-> <<>>, restParam |-> FALSE, error |-> FALSE]
    ELSE
      LET arr     == split(signature, ",")
          param   == [i \in 1..Len(arr) |-> trim(arr[i])]
          rest(i) == Len(param[i]) > 0 /\ param[i][1] = "..."
      IN  [params |->
             [i \in 1..Len(arr) |->
                parseParam(IF rest(i)
                             THEN (IF Len(param[i]) > 1 THEN Tail(param[i]) ELSE <<"any">>)
                             ELSE param[i])],
           restParam |-> rest(Len(arr)),
           error |-> \E i \in 1..(Len(arr) - 1) : rest(i)]

----------------------------------------------------------------------------
(* Compiling one signature. *)

\* notIgnore that never finds the type in the list
notIgnoreAnything(type, ign) == TRUE

\* notIgnore: typed.ignore.indexOf(type) === -1
notIgnore(type, ign) == \A i \in 1..Len(ign) : ign[i] # type

\* filterIgnoredTypes: <<>> models null (a param has no types left),
\* <<signature>> the filtered copy.
filterIgnoredTypes(signature, ign) ==
  LET filteredParams ==
        [i \in 1..Len(signature.params) |->
           SelectSeq(signature.params[i], LAMBDA type : notIgnore(type, ign))]
  IN  IF \E i \in 1..Len(filteredParams) : Len(filteredParams[i]) = 0
        THEN <<>>
        ELSE <<[params |-> filteredParams, restParam |-> signature.restParam]>>

\* compileParam that compiles the first type of a union only
compileParamFirst(param, reg) ==
  IF Len(param) = 0 THEN ok
  ELSE findTest(param[1], reg)

\* compileParam: the test of a param is the disjunction of the tests of its
\* types; compileParam of an empty param is ok.
compileParam(param, reg) ==
  IF Len(param) = 0 THEN ok
  ELSE UNION {findTest(param[i], reg) : i \in 1..Len(param)}

\* compileParams: the compiled tests a testArgs closure holds, one per param
\* (tests and lastTest, or test0 and test1)
compileParams(signature, reg) ==
  [i \in 1..Len(signature.params) |-> compileParam(signature.params[i], reg)]

\* args[i] of a JavaScript argument list (i counts from 0); undefined past
\* its end
argAt(args, i) == IF i + 1 <= Len(args) THEN args[i + 1] ELSE "undef"

\* testArgs with a rest param that may take no argument
\* (args.length >= varIndex)
testArgsEmptyRest(tests, restParam, args) ==
  IF restParam
    THEN LET varIndex == Len(tests) - 1
         IN  /\ \A i \in 0..(varIndex - 1) : argAt(args, i) \in tests[i + 1]
             /\ \A i \in varIndex..(Len(args) - 1) : argAt(args, i) \in tests[Len(tests)]
             /\ Len(args) >= varIndex
    ELSE /\ \A i \in 0..(Len(tests) - 1) : argAt(args, i) \in tests[i + 1]
         /\ Len(args) = Len(tests)

\* testArgs: the closure compileParams returns, applied to args
testArgs(tests, restParam, args) ==
  IF restParam
    THEN LET varIndex == Len(tests) - 1
         IN  /\ \A i \in 0..(varIndex - 1) : argAt(args, i) \in tests[i + 1]
             /\ \A i \in varIndex..(Len(args) - 1) : argAt(args, i) \in tests[Len(tests)]
             /\ Len(args) >= varIndex + 1
    ELSE /\ \A i \in 0..(Len(tests) - 1) : argAt(args, i) \in tests[i + 1]
         /\ Len(args) = Len(tests)

\* Does compiling the signature throw findTest's 'Unknown type'?
unknownType(signature, reg) ==
  \E i \in 1..Len(signature.params) :
    \E j \in 1..Len(signature.params[i]) : ~HasType(signature.params[i][j], reg)

----------------------------------------------------------------------------
(* Ordering the signatures. *)

\* createTypesIndexMap without 'Object and any should always be ordered last'
createTypesIndexMapByPosition(reg) ==
  [n \in {reg[i].name : i \in 1..Len(reg)} |->
     Max({i \in 1..Len(reg) : reg[i].name = n}) - 1]

\* createTypesIndexMap: the index of a name is that of its last entry;
\* Object and any are ordered last
createTypesIndexMap(reg) ==
  [n \in {reg[i].name : i \in 1..Len(reg)} \cup {"Object", "any"} |->
     IF n = "any" THEN Len(reg) + 1
     ELSE IF n = "Object" THEN Len(reg)
     ELSE Max({i \in 1..Len(reg) : reg[i].name = n}) - 1]

\* getLowestTypeIndex that takes the index of the first type of the param
getFirstTypeIndex(param, typesIndexMap) ==
  typesIndexMap[param[1]]

\* getLowestTypeIndex
getLowestTypeIndex(param, typesIndexMap) ==
  Min({typesIndexMap[param[i]] : i \in 1..Len(param)})

\* compareParams
compareParams(param1, param2, typesIndexMap) ==
  getLowestTypeIndex(param1, typesIndexMap) - getLowestTypeIndex(param2, typesIndexMap)

\* compareSignatures
compareSignatures(signature1, signature2, typesIndexMap) ==
  LET len  == Min({Len(signature1.params), Len(signature2.params)})
      rest == (IF signature1.restParam THEN 1 ELSE 0)
                - (IF signature2.restParam THEN 1 ELSE 0)
      c(i) == compareParams(signature1.params[i], signature2.params[i], typesIndexMap)
      diff == {i \in 1..len : c(i) # 0}
  IN  IF rest # 0 THEN rest
      ELSE IF diff # {} THEN c(Min(diff))
      ELSE Len(signature1.params) - Len(signature2.params)

\* defs.sort(function (a, b) { return compareSignatures(...) }): the sort is
\* stable (ECMAScript 2019; earlier engines sort arrays of at most 10
\* elements by insertion), so defs that compare 0 keep their order.
RECURSIVE sortDefs(_, _)
sortDefs(defs, typesIndexMap) ==
  IF Len(defs) <= 1 THEN defs
  ELSE LET init == sortDefs(SubSeq(defs, 1, Len(defs) - 1), typesIndexMap)
           d    == defs[Len(defs)]
           pos  == Cardinality({i \in 1..Len(init) :
                     compareSignatures(init[i].signature, d.signature, typesIndexMap) <= 0})
       IN  SubSeq(init, 1, pos) \o <<d>> \o SubSeq(init, pos + 1, Len(init))

----------------------------------------------------------------------------
(* Conversions. *)

indexOf(arr, x) ==
  IF \E i \in 1..Len(arr) : arr[i] = x
    THEN Min({i \in 1..Len(arr) : arr[i] = x}) - 1
    ELSE -1

\* getConversions, for one param, without the test !conversions[from]: every
\* registered conversion to a type of the param from a type not in it
paramConversionsAll(param, convs) ==
  SelectSeq(convs, LAMBDA c : indexOf(param, c.from) = -1 /\ indexOf(param, c.to) # -1)

\* getConversions, for one param: the first registered conversion per source
\* type that converts to a type of the param from a type not in it, in the
\* order in which the sources were first selected (Object.keys)
paramConversions(param, convs) ==
  LET q(i)   == /\ indexOf(param, convs[i].from) = -1
                /\ indexOf(param, convs[i].to) # -1
      sel(i) == q(i) /\ ~\E j \in 1..(i - 1) : convs[j].from = convs[i].from /\ q(j)
      idx    == SelectSeq([i \in 1..Len(convs) |-> i], sel)
  IN  [k \in 1..Len(idx) |-> convs[idx[k]]]

\* getConversions: <<>> models null (no param has a conversion)
getConversions(params, convs) ==
  LET pc == [i \in 1..Len(params) |-> paramConversions(params[i], convs)]
  IN  IF \E i \in 1..Len(pc) : Len(pc[i]) > 0 THEN pc ELSE <<>>

\* addConvertableParams
addConvertableParams(signature, convs) ==
  [params |->
     [i \in 1..Len(signature.params) |->
        signature.params[i] \o [k \in 1..Len(convs[i]) |-> convs[i][k].from]],
   restParam |-> signature.restParam]

\* compileArgConversion: the tests and converts a convertArg closure holds
compileArgConversion(convs, reg) ==
  [k \in 1..Len(convs) |->
     [test |-> findTest(convs[k].from, reg), convert |-> convs[k].convert]]

\* convertArg that applies the last conversion whose test accepts the arg
convertArgLast(compiled, arg) ==
  LET hits == {k \in 1..Len(compiled) : arg \in compiled[k].test}
  IN  IF hits = {} THEN [v |-> arg, by |-> 0]
      ELSE [v |-> arg, by |-> compiled[Max(hits)].convert]

\* convertArg: the value passed on, and the convert function applied to it
\* (0: none, the arg is passed unchanged)
convertArg(compiled, arg) ==
  LET hits == {k \in 1..Len(compiled) : arg \in compiled[k].test}
  IN  IF hits = {} THEN [v |-> arg, by |-> 0]
      ELSE [v |-> arg, by |-> compiled[Min(hits)].convert]

----------------------------------------------------------------------------
(* createTypedFunction.  A signatures map is the sequence of its entries    *)
(* [key, fn] in insertion order (the order of for..in), with distinct keys. *)
(* A def holds the compiled tests of its test closure in test; fn is the    *)
(* user function, and conversions the compiled conversions of the           *)
(* convertArgs wrapper around it (<<>> for an original def).                *)

\* the parsed and filtered signature of a key: <<>> or <<signature>>
parsedSignature(key, ign) == filterIgnoredTypes(parseParams(key), ign)

\* the loop over the keys: one def per key whose signature is not null
parseDefs(signatures, reg, ign) ==
  LET idx == SelectSeq([i \in 1..Len(signatures) |-> i],
                       LAMBDA i : parsedSignature(signatures[i].key, ign) # <<>>)
  IN  [k \in 1..Len(idx) |->
         LET sig == parsedSignature(signatures[idx[k]].key, ign)[1]
         IN  [signature   |-> sig,
              restParam   |-> sig.restParam,
              conversion  |-> FALSE,
              test        |-> compileParams(sig, reg),
              fn          |-> signatures[idx[k]].fn,
              conversions |-> <<>>]]

\* the def with conversions of an original def: <<>> or <<def>>
conversionDef(def, reg, convs) ==
  LET cs == getConversions(def.signature.params, convs)
  IN  IF cs = <<>> THEN <<>>
      ELSE LET sig == addConvertableParams(def.signature, cs)
           IN  <<[signature   |-> sig,
                  restParam   |-> def.restParam,
                  conversion  |-> TRUE,
                  test        |-> compileParams(sig, reg),
                  fn          |-> def.fn,
                  conversions |-> [i \in 1..Len(cs) |-> compileArgConversion(cs[i], reg)]]>>

\* the loop that adds the signatures with conversions
RECURSIVE conversionDefs(_, _, _)
conversionDefs(defs, reg, convs) ==
  IF Len(defs) = 0 THEN <<>>
  ELSE conversionDef(defs[1], reg, convs) \o conversionDefs(Tail(defs), reg, convs)

\* defs after sorting and adding the signatures with conversions
compileDefs(signatures, reg, convs, ign) ==
  LET sorted == sortDefs(parseDefs(signatures, reg, ign), createTypesIndexMap(reg))
  IN  sorted \o conversionDefs(sorted, reg, convs)

\* ok0..ok5, len0..len5, test00..test51 (k counts from 1); fn0..fn5 are the
\* fn of defs[k]
fastSlot(defs, k, reg) ==
  LET okk == /\ k <= Len(defs)
             /\ Len(defs[k].signature.params) <= 2
             /\ ~defs[k].signature.restParam
      param(i) == IF i <= Len(defs[k].signature.params)
                    THEN defs[k].signature.params[i] ELSE <<>>
  IN  [ok    |-> okk,
       test0 |-> IF okk THEN compileParam(param(1), reg) ELSE notOk,
       test1 |-> IF okk THEN compileParam(param(2), reg) ELSE notOk,
       len   |-> IF okk THEN Len(defs[k].signature.params) ELSE -1]

\* Object.prototype's properties, which every object literal {} inherits
ObjectPrototype ==
  { <<"constructor">>, <<"toString">>, <<"toLocaleString">>, <<"valueOf">>,
    <<"hasOwnProperty">>, <<"isPrototypeOf">>, <<"propertyIsEnumerable">>,
    <<"__proto__">> }

hasOwn(obj, key) == \E i \in 1..Len(obj) : obj[i].key = key

\* obj[key], for a key obj has
getOwn(obj, key) == obj[CHOOSE i \in 1..Len(obj) : obj[i].key = key].fn

\* obj[key] = fn: a new key is added last, a key obj has keeps its place
setProp(obj, key, fn) ==
  IF hasOwn(obj, key)
    THEN [i \in 1..Len(obj) |-> IF obj[i].key = key THEN [key |-> key, fn |-> fn] ELSE obj[i]]
    ELSE Append(obj, [key |-> key, fn |-> fn])

\* fn.signatures = {}; defs.forEach(...)
RECURSIVE attachSignatures(_, _)
attachSignatures(obj, defs) ==
  IF Len(defs) = 0 THEN obj
  ELSE attachSignatures(
         IF ~defs[1].conversion
           THEN setProp(obj, stringifyParams(defs[1].signature), defs[1].fn)
           ELSE obj,
         Tail(defs))

\* What createTypedFunction throws: "NoSignatures" ('No signatures
\* provided'), "SyntaxError" (parseParams), "UnknownType" (findTest), or
\* "none".  The keys are parsed and compiled one after the other, then the
\* signatures with conversions are compiled.
createTypedFunctionError(signatures, reg, convs, ign) ==
  LET keyError(i) ==
        IF parseParams(signatures[i].key).error THEN "SyntaxError"
        ELSE IF /\ parsedSignature(signatures[i].key, ign) # <<>>
                /\ unknownType(parsedSignature(signatures[i].key, ign)[1], reg)
          THEN "UnknownType"
        ELSE "none"
      bad == {i \in 1..Len(signatures) : keyError(i) # "none"}
  IN  IF Len(signatures) = 0 THEN "NoSignatures"
      ELSE IF bad # {} THEN keyError(Min(bad))
      ELSE IF LET defs == parseDefs(signatures, reg, ign)
              IN  \E d \in 1..Len(defs) :
                    LET cs == getConversions(defs[d].signature.params, convs)
                    IN  \E i \in 1..Len(cs) : \E k \in 1..Len(cs[i]) :
                          ~HasType(cs[i][k].from, reg)
        THEN "UnknownType"
      ELSE "none"

\* createTypedFunction, where it does not throw: the callable
createTypedFunction(name, signatures, reg, convs, ign) ==
  LET defs == compileDefs(signatures, reg, convs, ign)
      fast == [k \in 1..6 |-> fastSlot(defs, k, reg)]
  IN  [name       |-> name,
       defs       |-> defs,
       fast       |-> fast,
       iStart     |-> IF \A k \in 1..6 : fast[k].ok THEN 6 ELSE 0,
       signatures |-> attachSignatures(<<>>, defs)]

----------------------------------------------------------------------------
(* Calling the callable. *)

\* getExpectedParam that takes the last param for every position past the
\* params, rest param or not
getExpectedParamRepeating(signature, index) ==
  IF index < Len(signature.params) THEN signature.params[index + 1]
  ELSE IF Len(signature.params) > 0 THEN signature.params[Len(signature.params)]
  ELSE <<>>

\* getExpectedParam (index counts from 0)
getExpectedParam(signature, index) ==
  IF index < Len(signature.params) THEN signature.params[index + 1]
  ELSE IF signature.restParam THEN signature.params[Len(signature.params)]
  ELSE <<>>

\* isCorrectType
isCorrectType(expectedParam, actualType) ==
  indexOf(expectedParam, actualType) # -1 \/ indexOf(expectedParam, "any") # -1

\* uniq: the distinct elements, in the order of their first occurrence
uniq(arr) ==
  LET idx == SelectSeq([i \in 1..Len(arr) |-> i],
                       LAMBDA i : ~\E j \in 1..(i - 1) : arr[j] = arr[i])
  IN  [k \in 1..Len(idx) |-> arr[idx[k]]]

RECURSIVE flatten(_)
flatten(arrs) == IF Len(arrs) = 0 THEN <<>> ELSE arrs[1] \o flatten(Tail(arrs))

\* mergeExpectedParams
mergeExpectedParams(defs, index) ==
  LET params == uniq(flatten([d \in 1..Len(defs) |->
                                getExpectedParam(defs[d].signature, index)]))
  IN  IF indexOf(params, "any") # -1 THEN <<"any">> ELSE params

\* the loop of createError without matchingDefs = nextMatchingDefs: every
\* position is tested against all the defs
RECURSIVE narrowNothing(_, _, _)
narrowNothing(matchingDefs, actualTypes, index) ==
  IF index >= Len(actualTypes)
    THEN [wrong |-> FALSE, index |-> index, defs |-> matchingDefs]
  ELSE
    LET nextMatchingDefs ==
          SelectSeq(matchingDefs,
                    LAMBDA def : isCorrectType(getExpectedParam(def.signature, index),
                                               actualTypes[index + 1]))
    IN  IF Len(nextMatchingDefs) = 0 /\ Len(mergeExpectedParams(matchingDefs, index)) > 0
          THEN [wrong |-> TRUE, index |-> index, defs |-> matchingDefs]
          ELSE narrowNothing(matchingDefs, actualTypes, index + 1)

\* the loop of createError that tests for a wrong type, from position index
\* on: the position at which the error is raised and the defs matching
\* before it, or the position past the last argument
RECURSIVE narrow(_, _, _)
narrow(matchingDefs, actualTypes, index) ==
  IF index >= Len(actualTypes)
    THEN [wrong |-> FALSE, index |-> index, defs |-> matchingDefs]
  ELSE
    LET nextMatchingDefs ==
          SelectSeq(matchingDefs,
                    LAMBDA def : isCorrectType(getExpectedParam(def.signature, index),
                                               actualTypes[index + 1]))
    IN  IF Len(nextMatchingDefs) = 0
          THEN IF Len(mergeExpectedParams(matchingDefs, index)) > 0
                 THEN [wrong |-> TRUE, index |-> index, defs |-> matchingDefs]
                 ELSE narrow(matchingDefs, actualTypes, index + 1)
          ELSE narrow(nextMatchingDefs, actualTypes, index + 1)

\* createError: err.data.  A field the code does not set is -1, "" or <<>>;
\* the actual of a mismatch, which is the list of all actual types, is in
\* actualTypes.  Math.min and Math.max over the lengths, where a rest def
\* counts as Infinity, are compared without computing them.
createError(args, defs, reg) ==
  LET actualTypes == [i \in 1..Len(args) |-> findType(args[i], reg)]
      n           == narrow(defs, actualTypes, 0)
      tooFew      == \A d \in 1..Len(n.defs) :
                       n.defs[d].signature.restParam
                         \/ Len(actualTypes) < Len(n.defs[d].signature.params)
      maxLength   == Max({Len(n.defs[d].signature.params) : d \in 1..Len(n.defs)})
      none        == [category |-> "none", index |-> -1, actual |-> "", expected |-> <<>>,
                      expectedLength |-> -1, actualTypes |-> <<>>]
  IN  IF n.wrong
        THEN [none EXCEPT !.category = "wrongType", !.index = n.index,
                          !.actual = actualTypes[n.index + 1],
                          !.expected = mergeExpectedParams(n.defs, n.index)]
      ELSE IF tooFew
        THEN [none EXCEPT !.category = "tooFewArgs", !.index = Len(actualTypes),
                          !.expected = mergeExpectedParams(n.defs, n.index)]
      ELSE IF /\ \A d \in 1..Len(n.defs) : ~n.defs[d].signature.restParam
              /\ Len(actualTypes) > maxLength
        THEN [none EXCEPT !.category = "tooManyArgs", !.index = Len(actualTypes),
                          !.expectedLength = maxLength]
      ELSE [none EXCEPT !.category = "mismatch", !.actualTypes = actualTypes]

\* the arguments as a user function or a convertArgs wrapper receives them:
\* arguments itself, or what createRestParamPreProcess makes of it, the
\* leading arguments followed by one array of the others
plainArguments(args) == [head |-> args, rest |-> <<>>, gathered |-> FALSE]

preprocess(def, args) ==
  LET offset == Len(def.signature.params) - 1
  IN  [head |-> SubSeq(args, 1, offset),
       rest |-> SubSeq(args, offset + 1, Len(args)),
       gathered |-> TRUE]

\* def.fn.apply(null, arguments): the arguments the user function receives,
\* each with the convert function applied to it (0: none), and the calls of
\* convert functions made, in order.  An original def's fn is the user
\* function; the fn of a def with conversions is the convertArgs closure of
\* compileArgsConversion.
applyFn(def, arguments) ==
  LET conv(i, arg) == IF def.conversion THEN convertArg(def.conversions[i], arg)
                      ELSE [v |-> arg, by |-> 0]
      head == [i \in 1..Len(arguments.head) |-> conv(i, arguments.head[i])]
      rest == [i \in 1..Len(arguments.rest) |->
                 conv(Len(arguments.head) + 1, arguments.rest[i])]
  IN  [head |-> head, rest |-> rest, gathered |-> arguments.gathered,
       converts |-> SelectSeq(head \o rest, LAMBDA item : item.by # 0)]

\* the def the callable dispatches args to: the first matching fast slot,
\* else the first def the generic loop finds from iStart on; 0 when the
\* call throws
dispatch(f, args) ==
  LET fastHits == {k \in 1..6 : /\ Len(args) = f.fast[k].len
                                /\ argAt(args, 0) \in f.fast[k].test0
                                /\ argAt(args, 1) \in f.fast[k].test1}
      generic  == {i \in (f.iStart + 1)..Len(f.defs) :
                     testArgs(f.defs[i].test, f.defs[i].restParam, args)}
  IN  IF fastHits # {} THEN Min(fastHits)
      ELSE IF generic # {} THEN Min(generic)
      ELSE 0

\* a callable that converts the arguments for its first def with conversions
\* before it tests them: a call that throws has applied convert functions
callConvertingFirst(f, args, reg) ==
  LET i == dispatch(f, args)
      noError == [category |-> "none", index |-> -1, actual |-> "", expected |-> <<>>,
                  expectedLength |-> -1, actualTypes |-> <<>>]
      withConversions == {d \in 1..Len(f.defs) : f.defs[d].conversion}
      tried == IF withConversions = {} THEN <<>>
               ELSE LET def == f.defs[Min(withConversions)]
                    IN  [k \in 1..Min({Len(args), Len(def.conversions)}) |->
                           convertArg(def.conversions[k], args[k])]
  IN  IF i = 0
        THEN [op |-> "call", kind |-> "throw", args |-> args, def |-> 0, fn |-> 0,
              conversion |-> FALSE,
              passed |-> [head |-> <<>>, rest |-> <<>>, gathered |-> FALSE,
                          converts |-> SelectSeq(tried, LAMBDA item : item.by # 0)],
              error |-> createError(args, f.defs, reg)]
        ELSE [op |-> "call", kind |-> "return", args |-> args, def |-> i,
              fn |-> f.defs[i].fn, conversion |-> f.defs[i].conversion,
              passed |-> applyFn(f.defs[i],
                                 IF f.defs[i].restParam THEN preprocess(f.defs[i], args)
                                 ELSE plainArguments(args)),
              error |-> noError]

\* the callable applied to args: the outcome of the call
call(f, args, reg) ==
  LET i == dispatch(f, args)
      noError == [category |-> "none", index |-> -1, actual |-> "", expected |-> <<>>,
                  expectedLength |-> -1, actualTypes |-> <<>>]
  IN  IF i = 0
        THEN [op |-> "call", kind |-> "throw", args |-> args, def |-> 0, fn |-> 0,
              conversion |-> FALSE,
              passed |-> [head |-> <<>>, rest |-> <<>>, gathered |-> FALSE, converts |-> <<>>],
              error |-> createError(args, f.defs, reg)]
        ELSE [op |-> "call", kind |-> "return", args |-> args, def |-> i,
              fn |-> f.defs[i].fn, conversion |-> f.defs[i].conversion,
              passed |-> applyFn(f.defs[i],
                                 IF f.defs[i].restParam THEN preprocess(f.defs[i], args)
                                 ELSE plainArguments(args)),
              error |-> noError]

\* find, for a string (a comma separated signature) or an array of strings.
\* fn.signatures[str] is a property lookup on an object literal: a key the
\* map does not have is looked up in Object.prototype.  fn 0 is a function
\* that is no user function.
find(f, signature, isArray) ==
  LET parts == split(signature, ",")
      arr   == IF isArray THEN signature
               ELSE [i \in 1..Len(parts) |-> trim(parts[i])]
      str   == join(arr, ",")
  IN  IF hasOwn(f.signatures, str)
        THEN [op |-> "find", kind |-> "return", str |-> str, fn |-> getOwn(f.signatures, str)]
      ELSE IF str \in ObjectPrototype
        THEN [op |-> "find", kind |-> "return", str |-> str, fn |-> 0]
      ELSE [op |-> "find", kind |-> "throw", str |-> str, fn |-> 0]

----------------------------------------------------------------------------
(* The state machine: one instance of typed (create()), the program that    *)
(* registers conversions and ignored types, constructs a callable, calls it *)
(* and looks signatures up in it.  The model follows the first callable     *)
(* constructed.                                                             *)

Init ==
  /\ types = _types
  /\ conversions = <<>>
  /\ ignore = <<>>
  /\ built = <<>>
  /\ typedFn = <<>>
  /\ result = <<>>

\* the user functions a signatures map binds
Fns == {1, 2}

\* the signatures maps of at most MaxSigs entries with keys from Keys
SignatureMaps(Keys) ==
  UNION {{[i \in 1..n |-> [key |-> keys[i], fn |-> fns[i]]] :
            keys \in {k \in [1..n -> Keys] : \A i, j \in 1..n : i # j => k[i] # k[j]},
            fns \in [1..n -> Fns]} :
         n \in 0..MaxSigs}

\* the argument lists of at most max values from Vals
ArgLists(Vals, max) == UNION {[1..n -> Vals] : n \in 0..max}

\* typed.addConversion(conversion); the program registers its conversions
\* before it constructs the callable
AddConversion(Convs) ==
  /\ typedFn = <<>>
  /\ Len(conversions) < MaxConversions
  /\ \E conversion \in Convs : conversions' = Append(conversions, conversion)
  /\ result' = <<[op |-> "addConversion", kind |-> "return"]>>
  /\ UNCHANGED <<types, ignore, built, typedFn>>

\* typed.ignore.push(type)
AddIgnore(Names) ==
  /\ \E type \in Names :
       /\ notIgnore(type, ignore)
       /\ ignore' = Append(ignore, type)
  /\ result' = <<[op |-> "ignore", kind |-> "return"]>>
  /\ UNCHANGED <<types, conversions, built, typedFn>>

\* typed(signatures): createTypedFunction('', signatures) (the functions of
\* the map are plain functions, so getName gives '')
Typed(Keys) ==
  /\ typedFn = <<>>
  /\ \E signatures \in SignatureMaps(Keys) :
       LET error == createTypedFunctionError(signatures, types, conversions, ignore)
       IN  IF error # "none"
             THEN /\ result' = <<[op |-> "typed", kind |-> "throw", error |-> error]>>
                  /\ UNCHANGED <<built, typedFn>>
             ELSE /\ result' = <<[op |-> "typed", kind |-> "return", error |-> "none"]>>
                  /\ built' = <<[signatures |-> signatures, types |-> types,
                                 conversions |-> conversions, ignore |-> ignore]>>
                  /\ typedFn' = <<createTypedFunction("", signatures, types,
                                                      conversions, ignore)>>
  /\ UNCHANGED <<types, conversions, ignore>>

\* fn(...args), for the callable fn constructed
Call(Vals, max) ==
  /\ typedFn # <<>>
  /\ \E args \in ArgLists(Vals, max) : result' = <<call(typedFn[1], args, types)>>
  /\ UNCHANGED <<types, conversions, ignore, built, typedFn>>

\* typed.find(fn, signature), for a comma separated string
Find(Strings) ==
  /\ typedFn # <<>>
  /\ \E signature \in Strings : result' = <<find(typedFn[1], signature, FALSE)>>
  /\ UNCHANGED <<types, conversions, ignore, built, typedFn>>

\* typed.find(fn, signature), for an array of strings
FindArray(Arrays) ==
  /\ typedFn # <<>>
  /\ \E signature \in Arrays : result' = <<find(typedFn[1], signature, TRUE)>>
  /\ UNCHANGED <<types, conversions, ignore, built, typedFn>>

----------------------------------------------------------------------------
(* Conversions: callables constructed with a conversion registered, from    *)
(* string to number or from Object to Array.                                *)

Conversions ==
  { [from |-> "string", to |-> "number", convert |-> 1],
    [from |-> "Object", to |-> "Array",  convert |-> 2] }

ConvKeys ==
  { <<"number">>,
    <<"...", "string">>,
    <<"Array", ",", " ", "Array">> }

ConvValues == {"num", "str", "arr", "obj"}

Next == AddConversion(Conversions) \/ Typed(ConvKeys) \/ Call(ConvValues, MaxConvArgs)

Spec == Init /\ [][Next]_vars

\* the last operation was a call
Called == result # <<>> /\ result[1].op = "call"

\* C1: exact beats conversion.  When the arguments of a call satisfy the
\* compiled test of an original def, the call reaches an original def and no
\* convert function runs.
C1_ExactBeatsConversion ==
  LET f == typedFn[1]
      r == result[1]
  IN  ( /\ Called
        /\ \E d \in 1..Len(f.defs) :
             ~f.defs[d].conversion /\ testArgs(f.defs[d].test, f.defs[d].restParam, r.args) )
      => /\ r.kind = "return"
         /\ ~r.conversion
         /\ r.passed.converts = <<>>

\* the types of the original param at position p (counted from 1) of a def
\* with conversions: its param without the sources that were added
OriginalParam(def, p) ==
  SubSeq(def.signature.params[p], 1,
         Len(def.signature.params[p]) - Len(def.conversions[p]))

\* C3: conversion idempotence.  In a call dispatched to a def with
\* conversions, an argument that satisfies the predicate of a type of the
\* original param at its position is passed unchanged: no convert function
\* is applied to it.
C3_ConversionIdempotence ==
  (Called /\ result[1].kind = "return" /\ result[1].conversion) =>
    LET def    == typedFn[1].defs[result[1].def]
        reg    == built[1].types
        passed == result[1].passed
        already(p, v) ==
          \E t \in 1..Len(OriginalParam(def, p)) : v \in findTest(OriginalParam(def, p)[t], reg)
    IN  /\ \A i \in 1..Len(passed.head) :
             already(i, passed.head[i].v) => passed.head[i].by = 0
        /\ \A i \in 1..Len(passed.rest) :
             already(Len(passed.head) + 1, passed.rest[i].v) => passed.rest[i].by = 0

\* the categories of the errors a call raises
Categories == {"wrongType", "tooFewArgs", "tooManyArgs", "mismatch"}

\* C13: a call-time error is raised before any user function runs.  A call
\* that ends with wrongType, tooFewArgs, tooManyArgs or mismatch has invoked
\* no signature fn and no convert function, and a call raises an error of
\* one of these categories exactly when it does not return.
C13_ErrorBeforeAnyFn ==
  Called =>
    LET r == result[1] IN
    /\ r.kind = "throw" <=> r.error.category \in Categories
    /\ r.kind = "return" <=> r.error.category = "none"
    /\ r.error.category \in Categories =>
         /\ r.fn = 0
         /\ r.passed.converts = <<>>
         /\ r.passed.head = <<>> /\ r.passed.rest = <<>>

\* a call with two strings of a callable that converts strings to numbers
\* raised tooManyArgs
C13_Witness ==
  /\ Called
  /\ \E d \in 1..Len(typedFn[1].defs) : typedFn[1].defs[d].conversion
  /\ result[1].args = <<"str", "str">>
  /\ result[1].error.category = "tooManyArgs"

\* the defs of the callable whose compiled test accepts args, by index
\* (counted from 1)
AcceptingDefs(f, args) ==
  {d \in 1..Len(f.defs) : testArgs(f.defs[d].test, f.defs[d].restParam, args)}

\* C21: the callable refines a sorted linear scan.  A call invokes the fn of
\* the lowest-index def whose compiled test accepts the arguments, and it
\* throws exactly when the test of no def accepts them.
C21_SortedLinearScan ==
  Called =>
    LET accepting == AcceptingDefs(typedFn[1], result[1].args)
    IN  /\ result[1].kind = "throw" <=> accepting = {}
        /\ accepting # {} => result[1].def = Min(accepting)

----------------------------------------------------------------------------
(* Rest params: callables with rest signatures, called with numbers,        *)
(* strings and booleans.                                                    *)

RestKeys ==
  { <<"...", "number">>,
    <<"number", ",", " ", "...", "string">>,
    <<"number">>,
    <<"...">> }

RestValues == {"num", "str", "bool"}

NextRest == Typed(RestKeys) \/ Call(RestValues, MaxArgs)

SpecRest == Init /\ [][NextRest]_vars

\* the callable was constructed from the one signature key, with no
\* conversion registered
BuiltFrom(key) ==
  /\ built # <<>>
  /\ Len(built[1].signatures) = 1
  /\ built[1].signatures[1].key = key
  /\ built[1].conversions = <<>>
  /\ built[1].ignore = <<>>

\* the values the user function received, without the conversions
Received(items) == [i \in 1..Len(items) |-> items[i].v]

----------------------------------------------------------------------------
(* Order by specificity: callables with one-param signatures, some of them  *)
(* unions, called with values that several built-in predicates accept.      *)

OrderKeys ==
  { <<"number">>, <<"string">>, <<"any">>, <<"Object">>, <<"null">>, <<"Array">>,
    <<"number", " ", "|", " ", "string">>,
    <<"number", "|", "any">> }

OrderValues == {"num", "str", "null", "arr", "obj"}

NextOrder == Typed(OrderKeys) \/ Call(OrderValues, MaxFewArgs)

SpecOrder == Init /\ [][NextOrder]_vars

\* the sequences with the same elements in another order
Reorderings(seq) ==
  {[i \in 1..Len(seq) |-> seq[p[i]]] :
     p \in {q \in [1..Len(seq) -> 1..Len(seq)] :
              \A i, j \in 1..Len(seq) : i # j => q[i] # q[j]}}

\* the callable constructed from another signatures map, with the
\* registries as they were at the construction
Rebuilt(signatures) ==
  createTypedFunction("", signatures, built[1].types, built[1].conversions, built[1].ignore)

\* the user function a call reached (0: the call threw)
Reached(r) == IF r.kind = "return" THEN r.fn ELSE 0

\* C4: the routing of every argument list does not depend on the order of
\* the keys of the signatures map (compareSignatures is 0 only for identical
\* signatures, so sorting leaves nothing to the insertion order): the
\* callable constructed from the same entries in any other order reaches the
\* same user function.
C4_KeyOrderIrrelevant ==
  Called =>
    \A signatures \in Reorderings(built[1].signatures) :
      Reached(call(Rebuilt(signatures), result[1].args, types)) = Reached(result[1])

\* the type order of the specification: the registry index, with Object and
\* then any forced last
Rank(type) == IF type = "any" THEN 2 ELSE IF type = "Object" THEN 1 ELSE 0

Position(type, reg) == Min({i \in 1..Len(reg) : reg[i].name = type})

Precedes(type1, type2, reg) ==
  \/ Rank(type1) < Rank(type2)
  \/ Rank(type1) = Rank(type2) /\ Position(type1, reg) < Position(type2, reg)

\* the key is one type name of the registry
OneTypeKey(key, reg) == Len(key) = 1 /\ HasType(key[1], reg)

\* C6: for two one-param signatures T1 and T2 bound to different functions,
\* T1 before T2 in the type order, a value that satisfies both predicates
\* reaches T1's function and a value that satisfies only T2's reaches T2's,
\* whatever the order of the keys of the map.
C6_OrderBySpecificity ==
  (Called /\ Len(built[1].signatures) = 2 /\ Len(result[1].args) = 1) =>
    \A i, j \in 1..2 :
      LET e1  == built[1].signatures[i]
          e2  == built[1].signatures[j]
          reg == built[1].types
          v   == result[1].args[1]
      IN  ( /\ i # j
            /\ e1.fn # e2.fn
            /\ OneTypeKey(e1.key, reg) /\ OneTypeKey(e2.key, reg)
            /\ notIgnore(e1.key[1], built[1].ignore)
            /\ notIgnore(e2.key[1], built[1].ignore)
            /\ Precedes(e1.key[1], e2.key[1], reg) ) =>
          /\ (v \in findTest(e1.key[1], reg) /\ v \in findTest(e2.key[1], reg))
               => Reached(result[1]) = e1.fn
          /\ (v \notin findTest(e1.key[1], reg) /\ v \in findTest(e2.key[1], reg))
               => Reached(result[1]) = e2.fn

\* the map {"any": 1, "number": 2} routed a number to the function of number
C6_Witness ==
  /\ Called
  /\ built[1].signatures = <<[key |-> <<"any">>, fn |-> 1], [key |-> <<"number">>, fn |-> 2]>>
  /\ result[1].args = <<"num">>
  /\ result[1].kind = "return"
  /\ result[1].fn = 2

\* the entries that replace entry e when the union at param p of its
\* signature is split: one per type of the union, bound to the same function
SplitEntry(e, p) ==
  LET sig == parseParams(e.key)
  IN  [t \in 1..Len(sig.params[p]) |->
         [key |-> stringifyParams([params |-> [sig.params EXCEPT ![p] = <<sig.params[p][t]>>],
                                   restParam |-> sig.restParam]),
          fn  |-> e.fn]]

SplitAt(signatures, i, p) ==
  SubSeq(signatures, 1, i - 1) \o SplitEntry(signatures[i], p)
    \o SubSeq(signatures, i + 1, Len(signatures))

DistinctKeys(signatures) ==
  \A i, j \in 1..Len(signatures) : i # j => signatures[i].key # signatures[j].key

\* C7: a callable whose map has a signature with a union param routes every
\* argument list to the same function as the callable constructed from the
\* map in which that signature is replaced by its split signatures, bound
\* to the same function.
C7_UnionParity ==
  Called =>
    \A i \in 1..Len(built[1].signatures) :
      LET sig == parseParams(built[1].signatures[i].key)
      IN  \A p \in 1..Len(sig.params) :
            ( /\ ~sig.error
              /\ Len(sig.params[p]) >= 2
              /\ DistinctKeys(SplitAt(built[1].signatures, i, p)) ) =>
            Reached(call(Rebuilt(SplitAt(built[1].signatures, i, p)), result[1].args, types))
              = Reached(result[1])

----------------------------------------------------------------------------
(* Metadata: callables constructed with null ignored or not, and the        *)
(* signatures looked up in them.                                            *)

MetaKeys ==
  { <<>>,
    <<"number">>,
    <<"number", " ", "|", " ", "null">>,
    <<"null">>,
    <<"number", ",", " ", "string">> }

IgnoredNames == {"null"}

FindStrings ==
  { <<>>,
    <<"number">>,
    <<" ", "number", " ", ",", "string">>,
    <<"string", ",", " ", "number">>,
    <<"number", "|", "null">>,
    <<"null">>,
    <<"toString">> }

FindArrays ==
  { <<>>,
    << <<"number">>, <<"string">> >>,
    << <<"string">>, <<"number">> >>,
    << <<" ", "number">> >> }

NextMeta ==
  \/ AddIgnore(IgnoredNames)
  \/ Typed(MetaKeys)
  \/ Find(FindStrings)
  \/ FindArray(FindArrays)

SpecMeta == Init /\ [][NextMeta]_vars

\* the signature without the names of the ignore list
Stripped(signature, ign) ==
  [params |-> [p \in 1..Len(signature.params) |->
                 SelectSeq(signature.params[p], LAMBDA type : \A i \in 1..Len(ign) : ign[i] # type)],
   restParam |-> signature.restParam]

\* a param of the signature names an ignored type
NamesIgnored(signature, ign) ==
  \E p \in 1..Len(signature.params) : \E t \in 1..Len(signature.params[p]) :
    \E i \in 1..Len(ign) : ign[i] = signature.params[p][t]

\* a param of the signature names ignored types only
OnlyIgnored(signature, ign) ==
  \E p \in 1..Len(signature.params) : Len(Stripped(signature, ign).params[p]) = 0

\* the sequence without its element i
Without(seq, i) == SubSeq(seq, 1, i - 1) \o SubSeq(seq, i + 1, Len(seq))

Found == result # <<>> /\ result[1].op = "find"

\* C9: find is an exact lookup.  For the trim+join normal form str of its
\* argument, find returns signatures[str] when str is a key of
\* callable.signatures, and fails otherwise.
C9_FindExact ==
  Found =>
    LET r == result[1]
        signatures == typedFn[1].signatures
    IN  IF \E i \in 1..Len(signatures) : signatures[i].key = r.str
          THEN r.kind = "return" /\
               \E i \in 1..Len(signatures) : signatures[i].key = r.str /\ signatures[i].fn = r.fn
          ELSE r.kind = "throw"

\* C10: callable.signatures has exactly one entry per original def, keyed by
\* the canonical string of the def's signature and valued with the def's
\* user function, and no other entry.
C10_SignaturesOfOriginalDefs ==
  typedFn # <<>> =>
    LET f == typedFn[1]
        originals == {d \in 1..Len(f.defs) : ~f.defs[d].conversion}
    IN  /\ Len(f.signatures) = Cardinality(originals)
        /\ \A d \in originals :
             \E i \in 1..Len(f.signatures) :
               /\ f.signatures[i].key = stringifyParams(f.defs[d].signature)
               /\ f.signatures[i].fn = f.defs[d].fn

\* C11: in the def list of every constructed callable, no two defs have the
\* same signature and the same conversion flag, also when two keys of the map
\* normalize to the same signature.
C11_NoDuplicateDefs ==
  typedFn # <<>> =>
    \A d, e \in 1..Len(typedFn[1].defs) :
      d # e => ~( /\ typedFn[1].defs[d].signature = typedFn[1].defs[e].signature
                  /\ typedFn[1].defs[d].conversion = typedFn[1].defs[e].conversion )

\* C20: a signatures map in which every signature is discarded is treated
\* as an empty map: its construction fails with NoSignatures and constructs
\* no callable, so every constructed callable has at least one def and was
\* constructed from a map with a signature that is not discarded.
C20_AllDiscardedIsNoSignatures ==
  typedFn # <<>> =>
    /\ Len(typedFn[1].defs) >= 1
    /\ \E i \in 1..Len(built[1].signatures) :
         parsedSignature(built[1].signatures[i].key, built[1].ignore) # <<>>

----------------------------------------------------------------------------
(* Registries changed after construction: types, conversions and ignored    *)
(* names are added before and after a callable is constructed, and the      *)
(* callable is called with numbers and strings.                             *)

\* largest number of types added to the registry
MaxTypes == 1

\* typed.types.unshift(type): the type is added before the built-in types
addTypeFirst(reg, type) == <<type>> \o reg

\* typed.types.push(type)
addType(reg, type) == Append(reg, type)

\* typed.addType(type).  The argument is <<t>> for an object t with a name
\* and a test, <<>> for anything else, for which addType throws a TypeError.
AddType(Types) ==
  /\ Len(types) < Len(_types) + MaxTypes
  /\ \E type \in Types :
       IF type = <<>>
         THEN /\ result' = <<[op |-> "addType", kind |-> "throw"]>>
              /\ UNCHANGED types
         ELSE /\ result' = <<[op |-> "addType", kind |-> "return"]>>
              /\ types' = addType(types, type[1])
  /\ UNCHANGED <<conversions, ignore, built, typedFn>>

\* typed.addConversion(conversion), after the callable was constructed
AddConversionLater(Convs) ==
  /\ typedFn # <<>>
  /\ Len(conversions) < MaxConversions
  /\ \E conversion \in Convs : conversions' = Append(conversions, conversion)
  /\ result' = <<[op |-> "addConversion", kind |-> "return"]>>
  /\ UNCHANGED <<types, ignore, built, typedFn>>

FrozenKeys == { <<"number">>, <<"string">> }

FrozenValues == {"num", "str"}

FrozenConversions == { [from |-> "string", to |-> "number", convert |-> 1] }

\* integer is a type whose test accepts the numbers of the model
AddedTypes == { <<>>, <<[name |-> "integer", test |-> {"num"}]>> }

FrozenIgnored == {"string"}

NextFrozen ==
  \/ AddType(AddedTypes)
  \/ AddConversion(FrozenConversions)
  \/ AddConversionLater(FrozenConversions)
  \/ AddIgnore(FrozenIgnored)
  \/ Typed(FrozenKeys)
  \/ Call(FrozenValues, MaxConvArgs)

SpecFrozen == Init /\ [][NextFrozen]_vars

\* what a call shows of the callable: the user function invoked, the convert
\* functions applied, and the category and data of the error raised
Outcome(r) ==
  [fn |-> r.fn, passed |-> r.passed,
   category |-> r.error.category, index |-> r.error.index, actual |-> r.error.actual,
   expected |-> r.error.expected, expectedLength |-> r.error.expectedLength]

\* C12: callables are frozen at construction.  Whatever types, conversions
\* and ignored names were added since, every call of the callable invokes
\* the user function, applies the conversions and raises the error (category,
\* index, actual, expected, expectedLength) that the callable constructed
\* from the same map gives with the registries as they were at construction.
C12_FrozenAtConstruction ==
  Called =>
    Outcome(result[1])
      = Outcome(call(Rebuilt(built[1].signatures), result[1].args, built[1].types))

\* a call raised wrongType after a type, a conversion and an ignored name
\* were added to the registries the callable was constructed with
C12_Witness ==
  /\ Called
  /\ built[1].types = _types /\ types # _types
  /\ built[1].conversions = <<>> /\ conversions # <<>>
  /\ built[1].ignore = <<>> /\ ignore # <<>>
  /\ result[1].error.category = "wrongType"

----------------------------------------------------------------------------
(* Errors: callables with signatures of several arities, one of them with a *)
(* rest param, called with numbers, strings and booleans.                   *)

\* longest argument list a call is made with, where errors are classified
MaxErrArgs == 2

ErrKeys ==
  { <<"number">>,
    <<"string">>,
    <<"number", ",", "string">>,
    <<"string", ",", " ", "...", "number">> }

ErrValues == {"num", "str", "bool"}

NextErrors == Typed(ErrKeys) \/ Call(ErrValues, MaxErrArgs)

SpecErrors == Init /\ [][NextErrors]_vars

\* the last operation was a call that raised an error
Failed == Called /\ result[1].kind = "throw"

\* the name of the type of each argument of the last call
ActualTypes == [k \in 1..Len(result[1].args) |-> findType(result[1].args[k], built[1].types)]

\* the types a def expects at position i (counted from 0): those of its
\* param at i, those of its rest param at a position past its params, none
\* at a position past the params of a signature without rest param
ExpectedAt(def, i) ==
  LET params == def.signature.params
  IN  IF i < Len(params) THEN {params[i + 1][t] : t \in 1..Len(params[i + 1])}
      ELSE IF def.signature.restParam
        THEN {params[Len(params)][t] : t \in 1..Len(params[Len(params)])}
      ELSE {}

Accepts(def, i, type) == type \in ExpectedAt(def, i) \/ "any" \in ExpectedAt(def, i)

\* the defs (their indices) still viable before position i: narrowed at
\* every position before i at which a viable def accepts the actual type
RECURSIVE ViableBefore(_, _, _)
ViableBefore(defs, actualTypes, i) ==
  IF i = 0 THEN 1..Len(defs)
  ELSE LET before == ViableBefore(defs, actualTypes, i - 1)
           still  == {d \in before : Accepts(defs[d], i - 1, actualTypes[i])}
       IN  IF still = {} THEN before ELSE still

\* the positions at which no still-viable def accepts the actual type
EmptyAt(defs, actualTypes) ==
  {i \in 0..(Len(actualTypes) - 1) :
     \A d \in ViableBefore(defs, actualTypes, i) : ~Accepts(defs[d], i, actualTypes[i + 1])}

\* the union of the expected types at position i over the defs viable before i
ExpectedUnion(defs, actualTypes, i) ==
  UNION {ExpectedAt(defs[d], i) : d \in ViableBefore(defs, actualTypes, i)}

\* the error is the wrongType error of position i
WrongTypeAt(error, defs, actualTypes, i) ==
  /\ error.category = "wrongType"
  /\ error.index = i
  /\ error.actual = actualTypes[i + 1]
  /\ {error.expected[k] : k \in 1..Len(error.expected)} = ExpectedUnion(defs, actualTypes, i)
  /\ \A k, l \in 1..Len(error.expected) : k # l => error.expected[k] # error.expected[l]

\* C14 as stated: in a failing call, the first position at which no
\* still-viable def's expected param contains the actual type or any yields
\* the wrongType error of that position.
C14_WrongTypeAsStated ==
  Failed =>
    LET empty == EmptyAt(typedFn[1].defs, ActualTypes)
    IN  empty # {} =>
          WrongTypeAt(result[1].error, typedFn[1].defs, ActualTypes, Min(empty))

\* C14 as amended: in a failing call, the first position at which no
\* still-viable def's expected param contains the actual type or any, and at
\* which some still-viable def expects a type, yields the wrongType error of
\* that position (index, actual, expected the union of the expected types
\* over the defs still viable before it); a position at which no
\* still-viable def expects a type leaves the viable defs as they are, and a
\* call without such a first position raises no wrongType error.
C14_WrongType ==
  Failed =>
    LET defs  == typedFn[1].defs
        wrong == {i \in EmptyAt(defs, ActualTypes) : ExpectedUnion(defs, ActualTypes, i) # {}}
    IN  IF wrong # {}
          THEN WrongTypeAt(result[1].error, defs, ActualTypes, Min(wrong))
          ELSE result[1].error.category # "wrongType"

\* the callable of {"number", "string"} called with a boolean raised
\* wrongType with index 0, expected number or string, actual boolean
C14_Witness ==
  /\ Failed
  /\ {built[1].signatures[i].key : i \in 1..Len(built[1].signatures)}
       = {<<"number">>, <<"string">>}
  /\ result[1].args = <<"bool">>
  /\ result[1].error.category = "wrongType"
  /\ result[1].error.index = 0
  /\ result[1].error.actual = "boolean"
  /\ result[1].error.expected = <<"number", "string">>

\* C15: arity classification.  A failing call in which every position
\* narrows (no position raises wrongType) raises tooFewArgs, with the number
\* of arguments as index, when that number is below the least arity of the
\* surviving defs, a def with a rest param counting as infinite; tooManyArgs
\* when it is above the largest arity of the surviving defs without rest
\* param; and mismatch otherwise.
C15_ArityClassification ==
  Failed =>
    LET defs     == typedFn[1].defs
        n        == Len(result[1].args)
        wrong    == {i \in EmptyAt(defs, ActualTypes) : ExpectedUnion(defs, ActualTypes, i) # {}}
        surv     == ViableBefore(defs, ActualTypes, n)
        nonRest  == {d \in surv : ~defs[d].signature.restParam}
        belowMin == \A d \in nonRest : n < Len(defs[d].signature.params)
        aboveMax == nonRest # {} /\ \A d \in nonRest : n > Len(defs[d].signature.params)
    IN  wrong = {} =>
          IF belowMin
            THEN result[1].error.category = "tooFewArgs" /\ result[1].error.index = n
          ELSE IF aboveMax
            THEN result[1].error.category = "tooManyArgs"
          ELSE result[1].error.category = "mismatch"

\* the callable of "string, ...number" called with one string raised
\* tooFewArgs with index 1
C15_Witness ==
  /\ Failed
  /\ BuiltFrom(<<"string", ",", " ", "...", "number">>)
  /\ result[1].args = <<"str">>
  /\ result[1].error.category = "tooFewArgs"
  /\ result[1].error.index = 1

\* C16: the data of a tooManyArgs error carries the category, the number of
\* arguments of the call under the field name actual (a field createError
\* does not set is "" in the model), and as expectedLength the largest arity
\* among the surviving defs.
C16_TooManyArgsData ==
  (Failed /\ result[1].error.category = "tooManyArgs") =>
    LET defs == typedFn[1].defs
        surv == ViableBefore(defs, ActualTypes, Len(result[1].args))
    IN  /\ result[1].error.expectedLength
             = Max({Len(defs[d].signature.params) : d \in surv})
        /\ result[1].error.actual # ""
        /\ result[1].error.actual = Len(result[1].args)

----------------------------------------------------------------------------
(* typed itself, and the merge of typed functions.  A function as typed     *)
(* reads it is a record of its name and its property signatures: <<>> for a *)
(* function without signatures, <<map>> for a typed function.               *)

\* typed = createTypedFunction('typed', {...}), constructed by create() with
\* the built-in types, no conversion and nothing ignored.  Its three
\* implementations are numbered 1 ('string, Object'), 2 ('Object') and
\* 3 ('...Function').
typed ==
  createTypedFunction("typed",
    << [key |-> <<"string", ",", " ", "Object">>, fn |-> 1],
       [key |-> <<"Object">>,                      fn |-> 2],
       [key |-> <<"...", "Function">>,            fn |-> 3] >>,
    _types, <<>>, <<>>)

\* the implementation typed dispatches a call with these arguments to (a
\* name is a string, a signatures map an object, a function a function);
\* 0 when typed throws
typedImplementation(args) == call(typed, args, _types).fn

\* a function that is no typed function
plainFunction(name) == [name |-> name, signatures |-> <<>>]

\* a typed function, as typed reads it
typedFunction(f) == [name |-> f.name, signatures |-> <<f.signatures>>]

\* getName: the name of the typed functions among fns that have one; error
\* is TRUE where the code throws 'Function names do not match'
getName(fns) ==
  LET named == SelectSeq(fns, LAMBDA fn : fn.signatures # <<>> /\ fn.name # "")
      other == {i \in 1..Len(named) : named[i].name # named[1].name}
  IN  IF Len(named) = 0
        THEN [error |-> FALSE, name |-> "", expected |-> "", actual |-> ""]
      ELSE IF other # {}
        THEN [error |-> TRUE, name |-> "", expected |-> named[1].name,
              actual |-> named[Min(other)].name]
      ELSE [error |-> FALSE, name |-> named[1].name, expected |-> "", actual |-> ""]

\* the loop over the keys of fn.signatures without the test for a signature
\* defined twice: the function merged last is bound to the key
RECURSIVE mergeSignaturesOverwriting(_, _)
mergeSignaturesOverwriting(signatures, entries) ==
  IF Len(entries) = 0 THEN [signatures |-> signatures, duplicate |-> <<>>]
  ELSE mergeSignaturesOverwriting(setProp(signatures, entries[1].key, entries[1].fn),
                                  Tail(entries))

\* the loop over the keys of fn.signatures: duplicate is <<>>, or <<key>>
\* where the code throws 'Signature ... is defined twice'
RECURSIVE mergeSignatures(_, _)
mergeSignatures(signatures, entries) ==
  IF Len(entries) = 0 THEN [signatures |-> signatures, duplicate |-> <<>>]
  ELSE IF hasOwn(signatures, entries[1].key)
    THEN IF entries[1].fn # getOwn(signatures, entries[1].key)
           THEN [signatures |-> signatures, duplicate |-> <<entries[1].key>>]
           ELSE mergeSignatures(signatures, Tail(entries))
  ELSE mergeSignatures(setProp(signatures, entries[1].key, entries[1].fn), Tail(entries))

\* the loop over fns, from fns[i] on (i counts from 0)
RECURSIVE mergeFns(_, _, _)
mergeFns(signatures, fns, i) ==
  IF i >= Len(fns)
    THEN [error |-> "none", index |-> -1, signature |-> <<>>, signatures |-> signatures]
  ELSE IF fns[i + 1].signatures = <<>>
    THEN [error |-> "NotTyped", index |-> i, signature |-> <<>>, signatures |-> signatures]
  ELSE LET m == mergeSignatures(signatures, fns[i + 1].signatures[1])
       IN  IF m.duplicate # <<>>
             THEN [error |-> "DuplicateSignature", index |-> -1,
                   signature |-> m.duplicate[1], signatures |-> signatures]
             ELSE mergeFns(m.signatures, fns, i + 1)

\* what the implementation '...Function' of typed throws, after getName
\* returned name and the loop over fns ended with m ("none": nothing)
mergeError(name, m, reg, convs, ign) ==
  IF name.error THEN "NameMismatch"
  ELSE IF m.error # "none" THEN m.error
  ELSE createTypedFunctionError(m.signatures, reg, convs, ign)

\* the outcome of the implementation '...Function' of typed: error thrown,
\* or the callable that createTypedFunction(name, signatures) returns
mergeOutcome(fns, name, m, error, reg, convs, ign) ==
  IF error # "none"
    THEN [op |-> "merge", kind |-> "throw", error |-> error,
          index |-> IF error = "NotTyped" THEN m.index ELSE -1,
          fns |-> fns, callable |-> <<>>]
    ELSE [op |-> "merge", kind |-> "return", error |-> "none", index |-> -1, fns |-> fns,
          callable |-> <<createTypedFunction(name.name, m.signatures, reg, convs, ign)>>]

\* the implementation '...Function' of typed: the outcome of typed(...fns)
mergeTyped(fns, reg, convs, ign) ==
  LET name == getName(fns)
      m    == mergeFns(<<>>, fns, 0)
  IN  mergeOutcome(fns, name, m, mergeError(name, m, reg, convs, ign), reg, convs, ign)

\* largest number of functions merged
MaxFns == 2

\* the names given to typed functions
Names == {"", "a", "b"}

MergeKeys == { <<"number">>, <<"string">>, <<"number", " ", "|", " ", "null">> }

\* the other functions of a merge: a function that is no typed function, and
\* the typed functions typed(name, {'number': fn}), as typed reads them
OtherFunctions ==
  {plainFunction("")}
    \cup {[name |-> name, signatures |-> <<<<[key |-> <<"number">>, fn |-> fn]>>>>] :
            name \in {"", "b"}, fn \in Fns}

\* the numbers of functions for which typed(f1, ..., fn) is dispatched to
\* the implementation '...Function'
MergeArities == {n \in 1..MaxFns : typedImplementation([i \in 1..n |-> "fun"]) = 3}

\* typed(name, signatures), the implementation 'string, Object' of typed:
\* createTypedFunction(name, signatures)
TypedNamed(TheNames, Keys) ==
  /\ typedFn = <<>>
  /\ \E name \in TheNames, signatures \in SignatureMaps(Keys) :
       LET error == createTypedFunctionError(signatures, types, conversions, ignore)
       IN  IF error # "none"
             THEN /\ result' = <<[op |-> "typed", kind |-> "throw", error |-> error]>>
                  /\ UNCHANGED <<built, typedFn>>
             ELSE /\ result' = <<[op |-> "typed", kind |-> "return", error |-> "none"]>>
                  /\ built' = <<[signatures |-> signatures, types |-> types,
                                 conversions |-> conversions, ignore |-> ignore]>>
                  /\ typedFn' = <<createTypedFunction(name, signatures, types,
                                                      conversions, ignore)>>
  /\ UNCHANGED <<types, conversions, ignore>>

\* typed(f1, ..., fn), for the typed function constructed and other
\* functions.  A merge changes nothing but result, so a merge made right
\* after another one reaches no outcome the first could not reach: the
\* program makes it after a construction or a change of the ignore list.
Merge ==
  /\ typedFn # <<>>
  /\ result[1].op # "merge"
  /\ \E n \in MergeArities :
       \E fns \in [1..n -> {typedFunction(typedFn[1])} \cup OtherFunctions] :
         /\ \E i \in 1..n : fns[i] = typedFunction(typedFn[1])
         /\ result' = <<mergeTyped(fns, types, conversions, ignore)>>
  /\ UNCHANGED <<types, conversions, ignore, built, typedFn>>

NextMerge == AddIgnore(IgnoredNames) \/ TypedNamed(Names, MergeKeys) \/ Merge

SpecMerge == Init /\ [][NextMerge]_vars

\* the last operation was a merge
Merged == result # <<>> /\ result[1].op = "merge"

\* the positions (counted from 0) of the functions without signatures
Untyped(fns) == {i \in 0..(Len(fns) - 1) : fns[i + 1].signatures = <<>>}

\* the bindings (key, fn) of the signatures of a function
Bindings(fn) ==
  IF fn.signatures = <<>> THEN {}
  ELSE {<<fn.signatures[1][k].key, fn.signatures[1][k].fn>> : k \in 1..Len(fn.signatures[1])}

\* two of the functions bind the same key to different functions
Clash(fns) ==
  \E i, j \in 1..Len(fns) :
    \E b \in Bindings(fns[i]), c \in Bindings(fns[j]) : b[1] = c[1] /\ b[2] # c[2]

\* the typed functions that have a name have the same one
CompatibleNames(fns) ==
  Cardinality({fns[i].name : i \in {j \in 1..Len(fns) :
                                      fns[j].signatures # <<>> /\ fns[j].name # ""}}) <= 1

SignatureSet(f) == {<<f.signatures[k].key, f.signatures[k].fn>> : k \in 1..Len(f.signatures)}

\* no key is bound by two of the functions
DisjointKeys(fns) ==
  \A i, j \in 1..Len(fns) :
    i # j => \A b \in Bindings(fns[i]), c \in Bindings(fns[j]) : b[1] # c[1]

\* C18: merge commutativity.  Compiled callables with pairwise disjoint
\* signature keys and compatible names merge in every order to callables
\* whose signatures maps have the same keys bound to the same functions.
C18_MergeCommutes ==
  (Merged /\ Untyped(result[1].fns) = {} /\ CompatibleNames(result[1].fns)
     /\ DisjointKeys(result[1].fns)) =>
    \A fns \in Reorderings(result[1].fns) :
      LET m == mergeTyped(fns, types, conversions, ignore)
      IN  /\ m.kind = "return" /\ result[1].kind = "return"
          /\ SignatureSet(m.callable[1]) = SignatureSet(result[1].callable[1])

\* the argument lists of the calls compared
RoundTripArgs == ArgLists({"num", "str", "null"}, MaxFewArgs)

\* C30: canonical stringification round-trips.  The signature of every def
\* of a callable parses back from its canonical string, so the merge of the
\* callable alone, with the registries and the ignore list unchanged,
\* returns a callable with the same signatures map that routes every
\* argument list to the same function.
C30_CanonicalRoundTrip ==
  /\ typedFn # <<>> =>
       \A d \in 1..Len(typedFn[1].defs) :
         LET sig    == typedFn[1].defs[d].signature
             parsed == parseParams(stringifyParams(sig))
         IN  ~parsed.error /\ parsed.params = sig.params /\ parsed.restParam = sig.restParam
  /\ ( /\ Merged
       /\ result[1].fns = <<typedFunction(typedFn[1])>>
       /\ ignore = built[1].ignore ) =>
       /\ result[1].kind = "return"
       /\ result[1].callable[1].signatures = typedFn[1].signatures
       /\ \A args \in RoundTripArgs :
            Reached(call(result[1].callable[1], args, types))
              = Reached(call(typedFn[1], args, types))

----------------------------------------------------------------------------
(* Name inference: callables constructed from maps whose functions are      *)
(* plain functions and typed functions, with and without a name.            *)

NameKeys == { <<"number">>, <<"string">>, <<"boolean">> }

\* the functions a map binds: an anonymous function, a function named a
\* that is no typed function, and the typed functions of "number" named a,
\* named b and without a name
Components ==
  {plainFunction(""), plainFunction("a")}
    \cup {typedFunction(createTypedFunction(name, <<[key |-> <<"number">>, fn |-> 1]>>,
                                            _types, <<>>, <<>>)) : name \in Names}

\* the signatures maps of at most MaxSigs entries with keys from Keys and
\* functions from TheFns
SignatureMapsOf(Keys, TheFns) ==
  UNION {{[i \in 1..n |-> [key |-> keys[i], fn |-> fns[i]]] :
            keys \in {k \in [1..n -> Keys] : \A i, j \in 1..n : i # j => k[i] # k[j]},
            fns \in [1..n -> TheFns]} :
         n \in 0..MaxSigs}

\* typed(signatures), for a map of plain and typed functions: the name is
\* that of getName, which throws where the names do not match
TypedObject(Keys, TheFns) ==
  /\ typedFn = <<>>
  /\ typedImplementation(<<"obj">>) = 2
  /\ \E signatures \in SignatureMapsOf(Keys, TheFns) :
       LET name  == getName([i \in 1..Len(signatures) |-> signatures[i].fn])
           error == IF name.error THEN "NameMismatch"
                    ELSE createTypedFunctionError(signatures, types, conversions, ignore)
       IN  IF error # "none"
             THEN /\ result' = <<[op |-> "typed", kind |-> "throw", error |-> error,
                                  signatures |-> signatures]>>
                  /\ UNCHANGED <<built, typedFn>>
             ELSE /\ result' = <<[op |-> "typed", kind |-> "return", error |-> "none",
                                  signatures |-> signatures]>>
                  /\ built' = <<[signatures |-> signatures, types |-> types,
                                 conversions |-> conversions, ignore |-> ignore]>>
                  /\ typedFn' = <<createTypedFunction(name.name, signatures, types,
                                                      conversions, ignore)>>
  /\ UNCHANGED <<types, conversions, ignore>>

NextName == TypedObject(NameKeys, Components)

SpecName == Init /\ [][NextName]_vars

\* the names of the typed functions a map binds that have a name
ComponentNames(signatures) ==
  {signatures[i].fn.name :
     i \in {j \in 1..Len(signatures) :
              signatures[j].fn.signatures # <<>> /\ signatures[j].fn.name # ""}}

\* C19: name inference in the (signatures) form.  The construction from a
\* map that is not empty succeeds whether the names of the component
\* functions agree or not, and the callable has their common name when they
\* agree and the empty name otherwise.
C19_NameInference ==
  (result # <<>> /\ result[1].op = "typed" /\ Len(result[1].signatures) > 0) =>
    LET names == ComponentNames(result[1].signatures)
    IN  /\ result[1].kind = "return"
        /\ typedFn # <<>>
        /\ typedFn[1].name = IF Cardinality(names) = 1 THEN CHOOSE n \in names : TRUE ELSE ""

----------------------------------------------------------------------------
(* Compiled tests: callables with signatures of no, one and two params,     *)
(* with a union, with any and with a rest param, called with numbers and    *)
(* strings.                                                                 *)

TestKeys ==
  { <<>>,
    <<"boolean", "|", "number">>,
    <<"string", ",", "number">>,
    <<"any", ",", " ", "...", "number", "|", "boolean">> }

TestValues == {"num", "str"}

NextTest == Typed(TestKeys) \/ Call(TestValues, MaxArgs)

SpecTest == Init /\ [][NextTest]_vars

\* the value satisfies the predicate of one of the types of the param
Satisfies(v, param, reg) ==
  \E t \in 1..Len(param) :
    \E i \in 1..Len(reg) : reg[i].name = param[t] /\ v \in reg[i].test

\* the argument lists a signature of N params is to accept
Accepted(signature, args, reg) ==
  LET N == Len(signature.params)
  IN  IF N = 0 THEN Len(args) = 0
      ELSE IF ~signature.restParam
        THEN /\ Len(args) = N
             /\ \A i \in 1..N : Satisfies(args[i], signature.params[i], reg)
      ELSE /\ Len(args) >= N
           /\ \A i \in 1..(N - 1) : Satisfies(args[i], signature.params[i], reg)
           /\ \A j \in N..Len(args) : Satisfies(args[j], signature.params[N], reg)

\* C22: the compiled test of every def of the callable accepts the argument
\* list of a call exactly when the list is empty and the signature has no
\* param, or the signature has no rest param, the list has one element per
\* param and each satisfies a predicate of its param, or the signature has
\* a rest param, the list has at least as many elements as there are params,
\* the leading ones satisfy their params and all others the last param.
C22_CompiledTest ==
  Called =>
    \A d \in 1..Len(typedFn[1].defs) :
      LET def == typedFn[1].defs[d]
      IN  testArgs(def.test, def.restParam, result[1].args)
            <=> Accepted(def.signature, result[1].args, built[1].types)

\* the rest def of "any, ...number|boolean" accepted a string followed by
\* two numbers, and the call reached it
C22_Witness ==
  /\ Called
  /\ result[1].args = <<"str", "num", "num">>
  /\ result[1].kind = "return"
  /\ typedFn[1].defs[result[1].def].signature
       = [params |-> << <<"any">>, <<"number", "boolean">> >>, restParam |-> TRUE]

----------------------------------------------------------------------------
(* The order of signatures: compareSignatures applied to signatures of at   *)
(* most MaxParams params over number, string and any, with and without a    *)
(* rest param.                                                              *)

\* largest number of params of a signature compared
MaxParams == 2

CompareParams == { <<"number">>, <<"string", "number">>, <<"any">> }

\* the normalized signatures over CompareParams: a rest param is the last
\* of at least one param
CompareSignatures ==
  UNION {{[params |-> params, restParam |-> restParam] :
            params \in [1..n -> CompareParams],
            restParam \in IF n = 0 THEN {FALSE} ELSE BOOLEAN} :
         n \in 0..MaxParams}

\* the comparator of defs.sort, applied once to the pairs of three
\* signatures
Compare(Signatures) ==
  /\ result = <<>>
  /\ \E a, b, c \in Signatures :
       LET typesIndexMap == createTypesIndexMap(types)
       IN  result' = <<[op |-> "compare", kind |-> "return", a |-> a, b |-> b, c |-> c,
                        ab |-> compareSignatures(a, b, typesIndexMap),
                        ba |-> compareSignatures(b, a, typesIndexMap),
                        bc |-> compareSignatures(b, c, typesIndexMap),
                        ac |-> compareSignatures(a, c, typesIndexMap)]>>
  /\ UNCHANGED <<types, conversions, ignore, built, typedFn>>

NextCompare == Compare(CompareSignatures)

SpecCompare == Init /\ [][NextCompare]_vars

Compared == result # <<>> /\ result[1].op = "compare"

Sign(x) == IF x < 0 THEN -1 ELSE IF x > 0 THEN 1 ELSE 0

\* the type index of the specification: the registry position, with Object
\* and then any placed last
TypeIndex(type, reg) ==
  IF type = "any" THEN Len(reg) + 1
  ELSE IF type = "Object" THEN Len(reg)
  ELSE Position(type, reg) - 1

\* the lowest type index of the types of a param
LowestIndex(param, reg) ==
  CHOOSE k \in {TypeIndex(param[t], reg) : t \in 1..Len(param)} :
    \A t \in 1..Len(param) : k <= TypeIndex(param[t], reg)

\* the order of the specification, as a sign: rest after no rest, else the
\* first param of the common prefix that differs in lowest type index, else
\* fewer params first
ExpectedOrder(a, b, reg) ==
  LET common == 1..(IF Len(a.params) < Len(b.params) THEN Len(a.params) ELSE Len(b.params))
      differ == {i \in common : LowestIndex(a.params[i], reg) # LowestIndex(b.params[i], reg)}
      first  == CHOOSE i \in differ : \A j \in differ : i <= j
  IN  IF a.restParam # b.restParam THEN (IF a.restParam THEN 1 ELSE -1)
      ELSE IF differ # {}
        THEN (IF LowestIndex(a.params[first], reg) < LowestIndex(b.params[first], reg)
                THEN -1 ELSE 1)
      ELSE Sign(Len(a.params) - Len(b.params))

\* C23: compareSignatures orders rest signatures after the others, else by
\* the lowest type index of the first param of the common prefix that
\* differs in it, else by the number of params; and for all signatures a, b
\* and c the sign of cmp(a, b) is the opposite of that of cmp(b, a), and
\* cmp(a, b) <= 0 and cmp(b, c) <= 0 imply cmp(a, c) <= 0.
C23_CompareSignatures ==
  Compared =>
    LET r == result[1]
    IN  /\ Sign(r.ab) = ExpectedOrder(r.a, r.b, types)
        /\ Sign(r.bc) = ExpectedOrder(r.b, r.c, types)
        /\ Sign(r.ab) = -Sign(r.ba)
        /\ (r.ab <= 0 /\ r.bc <= 0) => r.ac <= 0

\* "string|number, any" and "number, any" were compared as equal though they
\* differ, and both precede the rest signature "...number"
C23_Witness ==
  /\ Compared
  /\ result[1].a = [params |-> << <<"string", "number">>, <<"any">> >>, restParam |-> FALSE]
  /\ result[1].b = [params |-> << <<"number">>, <<"any">> >>, restParam |-> FALSE]
  /\ result[1].c = [params |-> << <<"number">> >>, restParam |-> TRUE]
  /\ result[1].ab = 0 /\ result[1].bc < 0 /\ result[1].ac < 0

----------------------------------------------------------------------------
(* Conversion expansion: callables constructed with up to MaxRegistered     *)
(* conversions registered, two of them from the same source type.           *)

\* largest number of conversions registered
MaxRegistered == 2

\* typed.addConversion(conversion), for up to MaxRegistered conversions
\* registered before the callable is constructed
RegisterConversion(Convs) ==
  /\ typedFn = <<>>
  /\ Len(conversions) < MaxRegistered
  /\ \E conversion \in Convs : conversions' = Append(conversions, conversion)
  /\ result' = <<[op |-> "addConversion", kind |-> "return"]>>
  /\ UNCHANGED <<types, ignore, built, typedFn>>

ExpandConversions ==
  { [from |-> "string", to |-> "number",  convert |-> 1],
    [from |-> "string", to |-> "boolean", convert |-> 2],
    [from |-> "Array",  to |-> "number",  convert |-> 3] }

ExpandKeys ==
  { <<"number", "|", "boolean">>,
    <<"number", "|", "string">>,
    <<"Date">>,
    <<"boolean", ",", " ", "...", "number">> }

NextExpand == RegisterConversion(ExpandConversions) \/ Typed(ExpandKeys)

SpecExpand == Init /\ [][NextExpand]_vars

\* the param names the type
Mentions(param, type) == \E t \in 1..Len(param) : param[t] = type

\* the registry positions of the conversions selected for a param: the
\* first conversion per source type among those to a type of the param from
\* a type that is not in it
SelectedAt(param, convs) ==
  {i \in 1..Len(convs) :
     /\ Mentions(param, convs[i].to) /\ ~Mentions(param, convs[i].from)
     /\ \A j \in 1..(i - 1) :
          convs[j].from = convs[i].from =>
            ~(Mentions(param, convs[j].to) /\ ~Mentions(param, convs[j].from))}

\* the elements of seq at the positions of S, in the order of seq
Restrict(seq, S) == SelectSeq([i \in 1..Len(seq) |-> IF i \in S THEN <<seq[i]>> ELSE <<>>],
                              LAMBDA e : e # <<>>)

\* the conversions selected for a param, in the order of the registry
Selected(param, convs) ==
  LET kept == Restrict(convs, SelectedAt(param, convs))
  IN  [k \in 1..Len(kept) |-> kept[k][1]]

\* the original def has a param with a selected conversion
Expands(def, convs) ==
  \E i \in 1..Len(def.signature.params) : SelectedAt(def.signature.params[i], convs) # {}

\* C24: conversion expansion.  The defs with conversions of a callable are,
\* in the order of the original defs, one def for every original def that
\* has a param with a selected conversion, and no other; its param i is the
\* original param i followed by the source types of the conversions
\* selected for it, which are, in the order of the registry, the first
\* registered conversion per source type among the conversions to a type of
\* the param from a type not in it; it keeps the rest flag and converts with
\* the convert functions of the selected conversions.
C24_ConversionExpansion ==
  typedFn # <<>> =>
    LET convs     == built[1].conversions
        originals == SelectSeq(typedFn[1].defs, LAMBDA def : ~def.conversion)
        expanded  == SelectSeq(typedFn[1].defs, LAMBDA def : def.conversion)
        expanding == SelectSeq(originals, LAMBDA def : Expands(def, convs))
    IN  /\ typedFn[1].defs = originals \o expanded
        /\ Len(expanded) = Len(expanding)
        /\ \A k \in 1..Len(expanded) :
             LET def  == expanded[k]
                 from == expanding[k]
             IN  /\ def.restParam = from.restParam
                 /\ def.signature.restParam = from.signature.restParam
                 /\ def.fn = from.fn
                 /\ Len(def.signature.params) = Len(from.signature.params)
                 /\ \A i \in 1..Len(from.signature.params) :
                      LET sel == Selected(from.signature.params[i], convs)
                      IN  /\ def.signature.params[i]
                               = from.signature.params[i] \o [c \in 1..Len(sel) |-> sel[c].from]
                          /\ [c \in 1..Len(def.conversions[i]) |-> def.conversions[i][c].convert]
                               = [c \in 1..Len(sel) |-> sel[c].convert]

\* with string to boolean registered before string to number, the callable
\* of "number|boolean" and "number|string" has one def with conversions,
\* "number|boolean|string", that converts a string to a boolean
C24_Witness ==
  /\ typedFn # <<>>
  /\ built[1].conversions = <<[from |-> "string", to |-> "boolean", convert |-> 2],
                              [from |-> "string", to |-> "number",  convert |-> 1]>>
  /\ Len(built[1].signatures) = 2
  /\ \E i \in 1..2 : built[1].signatures[i].key = <<"number", "|", "string">>
  /\ Len(typedFn[1].defs) = 3
  /\ typedFn[1].defs[3].conversion
  /\ typedFn[1].defs[3].signature.params = << <<"number", "boolean", "string">> >>
  /\ typedFn[1].defs[3].conversions[1][1].convert = 2

----------------------------------------------------------------------------
(* Argument conversion: callables constructed with conversions from Object  *)
(* and from Array to number registered, called with strings, numbers and    *)
(* arrays (an array satisfies the predicates of Array and of Object).       *)

ConvertConversions ==
  { [from |-> "Object", to |-> "number", convert |-> 1],
    [from |-> "Array",  to |-> "number", convert |-> 2] }

ConvertKeys ==
  { <<"...", "number">>,
    <<"string", ",", " ", "number">> }

ConvertValues == {"num", "str", "arr"}

NextConvert ==
  \/ RegisterConversion(ConvertConversions)
  \/ Typed(ConvertKeys)
  \/ Call(ConvertValues, MaxConvArgs)

SpecConvert == Init /\ [][NextConvert]_vars

\* the convert function that is to be applied to an argument at position p
\* (counted from 1) of a def with conversions: that of the first conversion
\* selected for the position, in the order of the registry, whose source
\* predicate accepts the argument; 0 when there is none
ConvertOf(def, p, arg) ==
  LET sel  == Selected(OriginalParam(def, p), built[1].conversions)
      hits == {c \in 1..Len(sel) :
                 \E i \in 1..Len(built[1].types) :
                   built[1].types[i].name = sel[c].from /\ arg \in built[1].types[i].test}
  IN  IF hits = {} THEN 0
      ELSE sel[CHOOSE c \in hits : \A e \in hits : c <= e].convert

\* C25: argument conversion.  In a call dispatched to a def with
\* conversions, every argument is passed as convert(arg) for the first
\* conversion selected for its position whose source predicate accepts it,
\* and unchanged when there is none.  For a rest def of N params the
\* arguments from position N on are gathered into one sequence and the
\* mapping of position N is applied to each of them: the user function
\* receives N arguments, the last one the converted sequence.
C25_ArgumentConversion ==
  (Called /\ result[1].kind = "return" /\ result[1].conversion) =>
    LET def    == typedFn[1].defs[result[1].def]
        args   == result[1].args
        passed == result[1].passed
        N      == Len(def.signature.params)
    IN  IF def.restParam
          THEN /\ passed.gathered
               /\ Len(passed.head) = N - 1
               /\ Len(passed.rest) = Len(args) - (N - 1)
               /\ \A i \in 1..(N - 1) :
                    passed.head[i] = [v |-> args[i], by |-> ConvertOf(def, i, args[i])]
               /\ \A j \in 1..Len(passed.rest) :
                    passed.rest[j] = [v |-> args[N - 1 + j],
                                      by |-> ConvertOf(def, N, args[N - 1 + j])]
          ELSE /\ ~passed.gathered
               /\ passed.rest = <<>>
               /\ Len(passed.head) = Len(args)
               /\ \A i \in 1..Len(args) :
                    passed.head[i] = [v |-> args[i], by |-> ConvertOf(def, i, args[i])]

\* with Array to number registered before Object to number, the rest def
\* with conversions of "...number" received one sequence of an array
\* converted by the convert function of Array and a number left unchanged
C25_Witness ==
  /\ Called /\ result[1].kind = "return" /\ result[1].conversion
  /\ built[1].conversions = <<[from |-> "Array",  to |-> "number", convert |-> 2],
                              [from |-> "Object", to |-> "number", convert |-> 1]>>
  /\ typedFn[1].defs[result[1].def].restParam
  /\ result[1].args = <<"arr", "num">>
  /\ result[1].passed.head = <<>>
  /\ result[1].passed.rest = <<[v |-> "arr", by |-> 2], [v |-> "num", by |-> 0]>>

----------------------------------------------------------------------------
(* Parsing: callables constructed from keys with blanks, with a rest param  *)
(* at the last and at another place, with a bare "...", with an empty       *)
(* param, and from the empty and the blank key.                             *)

ParseKeys ==
  { <<>>,
    <<" ">>,
    <<"number">>,
    <<" ", "number", " ", ",", " ", "string", " ">>,
    <<"number", ",", "string">>,
    <<"number", " ", "|", " ", "string">>,
    <<"...", "number">>,
    <<"...">>,
    <<"...", "number", ",", "string">>,
    <<"number", ",">>,
    <<"string", ",", " ", "...", "number", "|", "string">> }

\* the functions bound: two functions that are no typed functions
ParseFns == {plainFunction(""), plainFunction("a")}

\* the program makes one construction
NextParse == result = <<>> /\ TypedObject(ParseKeys, ParseFns)

SpecParse == Init /\ [][NextParse]_vars

\* the key without its blanks
Squeezed(key) == SelectSeq(key, LAMBDA token : token # " ")

\* the comma separated tokens of a key: none for the empty or blank key
Tokens(key) == IF Squeezed(key) = <<>> THEN <<>> ELSE split(Squeezed(key), ",")

\* the token has the prefix "..."
RestToken(token) == Len(token) > 0 /\ token[1] = "..."

\* a token that is not the last one has the prefix "..."
MisplacedRest(key) == \E i \in 1..(Len(Tokens(key)) - 1) : RestToken(Tokens(key)[i])

\* the signature a key is to parse to: per token its type names, any for a
\* bare "...", and the rest flag of the last token
ParsedAs(key) ==
  LET tokens == Tokens(key)
      names(token) == SelectSeq(token, LAMBDA t : t # "..." /\ t # "|")
  IN  [params |-> [i \in 1..Len(tokens) |->
                     IF tokens[i] = <<"...">> THEN <<"any">> ELSE names(tokens[i])],
       restParam |-> Len(tokens) > 0 /\ RestToken(tokens[Len(tokens)])]

\* the signature has a param without a type name
HasEmptyParam(signature) == \E p \in 1..Len(signature.params) : signature.params[p] = <<>>

\* C26: signature parsing.  A map with a key in which a token other than
\* the last has the prefix "..." fails with SyntaxError and constructs no
\* callable.  Otherwise every key parses to the signature of its tokens
\* whatever the blanks around commas and pipes: no param for the empty or
\* blank key, the rest flag for a "..." prefix of the last token, any for a
\* bare "..."; the def list has one def per key whose signature has no empty
\* param, and every param of a def is a non-empty list of type names.
C26_Parsing ==
  (result # <<>> /\ result[1].op = "typed" /\ Len(result[1].signatures) > 0) =>
    LET signatures == result[1].signatures
        kept == {i \in 1..Len(signatures) : ~HasEmptyParam(ParsedAs(signatures[i].key))}
    IN  IF \E i \in 1..Len(signatures) : MisplacedRest(signatures[i].key)
          THEN /\ result[1].kind = "throw"
               /\ result[1].error = "SyntaxError"
               /\ typedFn = <<>>
          ELSE /\ result[1].kind = "return"
               /\ typedFn # <<>>
               /\ Len(typedFn[1].defs) = Cardinality(kept)
               /\ \A i \in kept :
                    \E d \in 1..Len(typedFn[1].defs) :
                      /\ typedFn[1].defs[d].signature = ParsedAs(signatures[i].key)
                      /\ typedFn[1].defs[d].restParam = ParsedAs(signatures[i].key).restParam
                      /\ typedFn[1].defs[d].fn = signatures[i].fn
               /\ \A d \in 1..Len(typedFn[1].defs) :
                    \A p \in 1..Len(typedFn[1].defs[d].signature.params) :
                      /\ typedFn[1].defs[d].signature.params[p] # <<>>
                      /\ \A t \in 1..Len(typedFn[1].defs[d].signature.params[p]) :
                           HasType(typedFn[1].defs[d].signature.params[p][t], built[1].types)

\* the callable of " number , string " and the bare "..." has the defs of
\* "number,string" and of a rest param of any
C26_Witness ==
  /\ result # <<>> /\ result[1].op = "typed" /\ result[1].kind = "return"
  /\ Len(result[1].signatures) = 2
  /\ result[1].signatures[1].key = <<" ", "number", " ", ",", " ", "string", " ">>
  /\ result[1].signatures[2].key = <<"...">>
  /\ typedFn[1].defs[1].signature
       = [params |-> << <<"number">>, <<"string">> >>, restParam |-> FALSE]
  /\ typedFn[1].defs[2].signature = [params |-> << <<"any">> >>, restParam |-> TRUE]

----------------------------------------------------------------------------
(* Errors about null and Arrays: callables with a param of null and of      *)
(* Object, called with numbers, strings, null and arrays (Object's          *)
(* predicate accepts null and arrays).                                      *)

BlameKeys ==
  { <<"number">>,
    <<"null", ",", " ", "number">>,
    <<"Object", ",", " ", "number">> }

BlameValues == {"num", "str", "null", "arr"}

NextBlame == Typed(BlameKeys) \/ Call(BlameValues, MaxErrArgs)

SpecBlame == Init /\ [][NextBlame]_vars

\* the registered types whose predicate the value satisfies
MatchingTypes(v, reg) == {reg[i].name : i \in {j \in 1..Len(reg) : v \in reg[j].test}}

\* C27: value classification agrees with the order used for sorting.  The
\* type name in the field actual of a wrongType error is, among the
\* registered types whose predicate the argument satisfies, the one with the
\* lowest type index (the registry position, with Object and any last),
\* also for null, which satisfies the predicates of null and of Object.
C27_ClassificationBySpecificity ==
  (Failed /\ result[1].error.category = "wrongType") =>
    LET v == result[1].args[result[1].error.index + 1]
        matching == MatchingTypes(v, types)
    IN  /\ result[1].error.actual \in matching
        /\ \A type \in matching :
             TypeIndex(result[1].error.actual, types) <= TypeIndex(type, types)

\* the compiled predicates of the def accept the arguments at the positions
\* 0..i (a rest param takes every position from its own on)
AcceptsUpTo(def, args, i) ==
  \A k \in 1..(i + 1) :
    IF k <= Len(def.test) THEN args[k] \in def.test[k]
    ELSE def.restParam /\ args[k] \in def.test[Len(def.test)]

\* C28: a wrongType error blames an argument that is not acceptable.  When
\* a call raises wrongType with index i, no def of the callable has compiled
\* predicates that accept all the arguments at the positions 0..i.
C28_WrongTypeBlamesUnacceptable ==
  (Failed /\ result[1].error.category = "wrongType") =>
    \A d \in 1..Len(typedFn[1].defs) :
      ~AcceptsUpTo(typedFn[1].defs[d], result[1].args, result[1].error.index)

----------------------------------------------------------------------------
(* Metadata and dispatch: callables constructed with null ignored or not,   *)
(* called and looked up.                                                    *)

AgreeValues == {"num", "str", "null"}

NextAgree ==
  \/ AddIgnore(IgnoredNames)
  \/ Typed(MetaKeys)
  \/ Call(AgreeValues, MaxErrArgs)
  \/ Find(FindStrings)

SpecAgree == Init /\ [][NextAgree]_vars

\* the original defs of the callable whose canonical signature is key
DefsOf(f, key) ==
  {d \in 1..Len(f.defs) : ~f.defs[d].conversion /\ stringifyParams(f.defs[d].signature) = key}

\* the arguments are accepted by an original def of that canonical
\* signature and by no original def of another signature
AcceptedOnlyBy(f, key, args) ==
  /\ \E d \in DefsOf(f, key) : testArgs(f.defs[d].test, f.defs[d].restParam, args)
  /\ \A d \in 1..Len(f.defs) :
       (~f.defs[d].conversion /\ d \notin DefsOf(f, key)) =>
         ~testArgs(f.defs[d].test, f.defs[d].restParam, args)

\* C29: metadata and dispatch agree.  For every key of callable.signatures,
\* a call with arguments accepted by the def of that canonical signature
\* and by no original def of another signature invokes the fn stored under
\* the key, which is the fn find returns for the key, also when two keys of
\* the map normalize to the same canonical signature.
C29_MetadataAgreesWithDispatch ==
  /\ Called =>
       \A i \in 1..Len(typedFn[1].signatures) :
         AcceptedOnlyBy(typedFn[1], typedFn[1].signatures[i].key, result[1].args) =>
           /\ result[1].kind = "return"
           /\ result[1].fn = typedFn[1].signatures[i].fn
  /\ Found =>
       \A i \in 1..Len(typedFn[1].signatures) :
         typedFn[1].signatures[i].key = result[1].str =>
           /\ result[1].kind = "return"
           /\ result[1].fn = typedFn[1].signatures[i].fn

====
